---- MODULE Spec2Model ----
(***************************************************************************)
(* BinMate backend (app.py): the in-memory user ledger, the marketplace    *)
(* redemption handler, the leaderboard read and the two AI proxy handlers. *)
(* Spec handles one request at a time; SpecConc interleaves the steps of   *)
(* two redeem_item calls on the shared ledger.                             *)
(***************************************************************************)
EXTENDS Integers, Sequences, FiniteSets, TLC

VARIABLES
    points,     \* user_data['points']
    api_key,    \* os.getenv('GEMINI_API_KEY') as the process sees it
    req,        \* the request handled last: handler, body, remote outcome
    pre,        \* user_data['points'] when that request started
    resp,       \* the response it produced
    posted,     \* TRUE iff that request reached requests.post
    call,       \* SpecConc: request.json of each redeem_item call
    pc,         \* SpecConc: position of each redeem_item call
    item_name,  \* SpecConc: local item_name of each call
    item_cost,  \* SpecConc: local item_cost of each call
    tmp,        \* SpecConc: value loaded by `user_data['points'] -= item_cost`
    out,        \* SpecConc: response of each call
    start,      \* SpecConc: balance when the current pair of calls started
    overlap     \* SpecConc: TRUE iff the two calls of the pair were in flight together

vars == <<points, api_key, req, pre, resp, posted,
          call, pc, item_name, item_cost, tmp, out, start, overlap>>

seqVars == <<points, api_key, req, pre, resp, posted>>
concVars == <<call, pc, item_name, item_cost, tmp, out, start, overlap>>

-----------------------------------------------------------------------------
(* The in-memory "database"                                                *)

InitialPoints == 1250

marketplace_items_db ==
    ("Cloth Tote Bag" :> 500) @@ ("Seed Paper Pack" :> 350) @@
    ("Bamboo Coffee Cup" :> 750) @@ ("Compost Bin" :> 1500)

\* The two request threads of SpecConc.
Calls == {"A", "B"}

\* os.getenv('GEMINI_API_KEY'): None when unset, else the string set.
ApiKeys == {[present |-> FALSE, val |-> ""], [present |-> TRUE, val |-> ""],
            [present |-> TRUE, val |-> "key"]}

-----------------------------------------------------------------------------
(* JSON values as the handlers see them.  kind "absent" is a key that the  *)
(* body does not hold; dict.get turns it into None, dict[...] raises.      *)

JStr(s) == [kind |-> "string", str |-> s]
JAbsent == [kind |-> "absent", str |-> ""]
JNull == [kind |-> "null", str |-> ""]
JNumber(s) == [kind |-> "number", str |-> s]
JArray(s) == [kind |-> "array", str |-> s]

\* Python truthiness of a JSON value (`not x` is its negation).
Truthy(v) ==
    CASE v.kind = "string" -> v.str # ""
      [] v.kind = "number" -> v.str # "0"
      [] v.kind = "array" -> v.str # ""
      [] OTHER -> FALSE

\* `x in marketplace_items_db` raises TypeError for an unhashable x.
Hashable(v) == v.kind # "array"

InDb(v) == v.kind = "string" /\ v.str \in DOMAIN marketplace_items_db

NameValues ==
    {JStr(n) : n \in DOMAIN marketplace_items_db}
    \cup {JStr("Unicorn"), JStr(""), JAbsent, JNull,
          JNumber("0"), JNumber("7"), JArray(""), JArray("x")}

\* request.json: a JSON object holding (or not) the field, or another JSON value.
Bodies(values) == [obj : {TRUE}, val : values] \cup {[obj |-> FALSE, val |-> JNull]}

RedeemBodies == Bodies(NameValues)

-----------------------------------------------------------------------------
(* Responses                                                               *)

\* jsonify(body), status
Json(h, status, body) == [handler |-> h, status |-> status, kind |-> "json", body |-> body]

\* An exception that leaves the view function: no handler of app.py turns it
\* into a JSON body, Flask answers 500 (the debugger page under debug=True).
Escaped(h, exc) ==
    [handler |-> h, status |-> 500, kind |-> "exception", body |-> [exception |-> exc]]

\* render_template(name)
Html(h, name) == [handler |-> h, status |-> 200, kind |-> "html", body |-> [template |-> name]]

NoBody == [obj |-> FALSE, val |-> JNull]
NoRemote == [kind |-> "none", status |-> ""]
NoReq == [handler |-> "none", body |-> NoBody, remote |-> NoRemote]
NoResp == [handler |-> "none", status |-> 0, kind |-> "none", body |-> [exception |-> ""]]

-----------------------------------------------------------------------------
(* redeem_item                                                             *)

\* NotFound without the catalog membership test.
NotFoundFalsyOnly(v) == ~Truthy(v)

\* line 70
NotFound(v) == ~Truthy(v) \/ ~InDb(v)

NotFoundResponse ==
    Json("redeem_item", 404, [success |-> FALSE, message |-> "Item not found."])

\* CanAfford with the comparison turned round.
CanAffordFlipped(p, cost) == p <= cost

\* CanAfford testing the balance alone, not against the cost.
CanAffordAnyCost(p, cost) == p >= 0

\* line 75
CanAfford(p, cost) == p >= cost

\* Deduct with `+=` for `-=`.
DeductPlus(p, cost) == p + cost

\* Deduct charging the cost twice.
DeductTwice(p, cost) == p - cost - cost

\* line 76
Deduct(p, cost) == p - cost

RedeemOk(name, p) ==
    Json("redeem_item", 200,
         [success |-> TRUE,
          message |-> "Successfully redeemed " \o name \o "!",
          new_points |-> p])

RedeemRejected(name, p) ==
    Json("redeem_item", 400,
         [success |-> FALSE,
          message |-> "Not enough points to redeem " \o name \o ".",
          new_points |-> p])

\* The exception redeem_item lets escape before the balance check ("" for none):
\*   line 68  request.json.get on a body that is no JSON object
\*   line 70  `item_name not in marketplace_items_db` on an unhashable name
\*            (evaluated only when `not item_name` is False)
\*   line 73  marketplace_items_db[item_name] on a name that is no key
RedeemRaises(body) ==
    IF ~body.obj THEN "AttributeError"
    ELSE IF Truthy(body.val) /\ ~Hashable(body.val) THEN "TypeError"
    ELSE IF ~NotFound(body.val) /\ ~InDb(body.val) THEN "KeyError"
    ELSE ""

\* TRUE iff the call reaches the balance check of line 75.
ReachesCheck(body) == RedeemRaises(body) = "" /\ ~NotFound(body.val)

\* The balance a whole redeem_item call leaves, from balance p.
RedeemPoints(body, p) ==
    IF ReachesCheck(body) /\ CanAfford(p, marketplace_items_db[body.val.str])
    THEN Deduct(p, marketplace_items_db[body.val.str])
    ELSE p

\* The response of a redeem_item call that returns before line 73.
RedeemEarly(body) ==
    IF RedeemRaises(body) # "" THEN Escaped("redeem_item", RedeemRaises(body))
    ELSE NotFoundResponse

\* The response of a whole redeem_item call, from balance p.
RedeemResponse(body, p) ==
    IF ~ReachesCheck(body) THEN RedeemEarly(body)
    ELSE IF CanAfford(p, marketplace_items_db[body.val.str])
         THEN RedeemOk(body.val.str, RedeemPoints(body, p))
         ELSE RedeemRejected(body.val.str, p)

redeem_item(body) ==
    /\ req' = [handler |-> "redeem_item", body |-> body, remote |-> NoRemote]
    /\ pre' = points
    /\ points' = RedeemPoints(body, points)
    /\ resp' = RedeemResponse(body, points)
    /\ posted' = FALSE
    /\ UNCHANGED <<api_key, concVars>>

-----------------------------------------------------------------------------
(* Read-only endpoints                                                     *)

Handled(h, r) ==
    /\ req' = [handler |-> h, body |-> NoBody, remote |-> NoRemote]
    /\ pre' = points
    /\ resp' = r
    /\ posted' = FALSE
    /\ UNCHANGED <<points, api_key, concVars>>

get_user ==
    Handled("get_user", Json("get_user", 200, [name |-> "User", points |-> points]))

\* lines 41-46
other_entries ==
    << [rank |-> 1, name |-> "K Keerthana", points |-> 5430],
       [rank |-> 2, name |-> "Deepika", points |-> 5120],
       [rank |-> 3, name |-> "Aravind", points |-> 4980],
       [rank |-> 4, name |-> "Sai Charan", points |-> 3200],
       [rank |-> 5, name |-> "Priya", points |-> 2150],
       [rank |-> 6, name |-> "Ramesh", points |-> 1500] >>

\* leaderboard_data with the user's row fixed at the starting balance.
leaderboard_cached(p) ==
    other_entries \o << [rank |-> 7, name |-> "You", points |-> InitialPoints] >>

\* The list get_leaderboard builds when user_data['points'] is p.
leaderboard_data(p) ==
    other_entries \o << [rank |-> 7, name |-> "You", points |-> p] >>

get_leaderboard ==
    Handled("get_leaderboard",
            Json("get_leaderboard", 200, [entries |-> leaderboard_data(points)]))

marketplace_items ==
    << [icon |-> "fa-shopping-bag", name |-> "Cloth Tote Bag", points |-> 500],
       [icon |-> "fa-seedling", name |-> "Seed Paper Pack", points |-> 350],
       [icon |-> "fa-mug-hot", name |-> "Bamboo Coffee Cup", points |-> 750],
       [icon |-> "fa-recycle", name |-> "Compost Bin", points |-> 1500] >>

get_marketplace_items ==
    Handled("get_marketplace_items",
            Json("get_marketplace_items", 200, [entries |-> marketplace_items]))

news_data ==
    << [title |-> "Community Clean-Up Drive This Sunday!", date |-> "October 8, 2025",
        content |-> "Join us this Sunday at 8 AM near the Ramagundam Municipal Park for our monthly clean-up drive. Let's make our city shine together! Gloves and bags will be provided."],
       [title |-> "BinMate Reaches 1,000 Users!", date |-> "September 28, 2025",
        content |-> "We are thrilled to announce that over 1,000 residents are now using BinMate to make a difference."],
       [title |-> "New Smart Bins Deployed in Sector 5", date |-> "September 15, 2025",
        content |-> "As part of the Smart City initiative, 20 new IoT-enabled smart bins have been installed across Sector 5."] >>

get_news ==
    Handled("get_news", Json("get_news", 200, [entries |-> news_data]))

serve_index ==
    Handled("serve_index", Html("serve_index", "index.html"))

-----------------------------------------------------------------------------
(* The AI proxy: get_recommendation and scan_image                         *)

\* KeyMissing testing for the empty string only.
KeyMissingEmptyOnly(k) == k.present /\ k.val = ""

\* line 96 / line 139: `if not api_key`
KeyMissing(k) == ~k.present \/ k.val = ""

KeyErrorResponse(h) == Json(h, 500, [error |-> "API key not configured on the server."])

InternalError(h) == Json(h, 500, [error |-> "An internal server error occurred."])

\* What requests.post, raise_for_status and response.json() can do:
\*   conn_error   RequestException raised by requests.post, e.response is None
\*   http_error   HTTPError raised by raise_for_status, e.response holds the status
\*   bad_json     a 2xx answer whose body is not JSON: response.json() raises
\*   ok_*         a 2xx answer with a JSON body of the shape named
RemoteOutcomes ==
    {[kind |-> "conn_error", status |-> ""],
     [kind |-> "http_error", status |-> "429"],
     [kind |-> "http_error", status |-> "503"],
     [kind |-> "bad_json", status |-> "200"],
     [kind |-> "ok_text", status |-> "200"],
     [kind |-> "ok_no_candidates", status |-> "200"],
     [kind |-> "ok_empty_candidates", status |-> "200"],
     [kind |-> "ok_not_object", status |-> "200"]}

ItemValues == {JStr("plastic bag"), JStr(""), JAbsent, JNull, JNumber("0"), JArray("x")}
ImageValues == {JStr("aGVsbG8="), JStr(""), JAbsent, JNull}

\* TRUE iff get_recommendation reaches requests.post (line 113).
RecommendPosts(k, body) ==
    ~KeyMissing(k) /\ body.obj /\ body.val.kind # "absent" /\ Truthy(body.val)

\* The responses get_recommendation can give after requests.post, by remote outcome.
RecommendRemote(remote) ==
    CASE remote.kind \in {"conn_error", "http_error"} ->
            {Json("get_recommendation", 500, [error |-> "Could not reach the AI service."])}
      [] remote.kind = "bad_json" ->
            \* requests.exceptions.JSONDecodeError is a RequestException from
            \* requests 2.27 on, a plain ValueError before.
            {Json("get_recommendation", 500, [error |-> "Could not reach the AI service."]),
             InternalError("get_recommendation")}
      [] remote.kind = "ok_text" ->
            {Json("get_recommendation", 200, [recommendation |-> "text"])}
      [] remote.kind = "ok_no_candidates" ->
            {Json("get_recommendation", 200,
                  [recommendation |->
                      "Sorry, I could not think of a recommendation right now."])}
      [] remote.kind = "ok_empty_candidates" ->
            {Json("get_recommendation", 500,
                  [error |-> "Received an invalid response from the AI service."])}
      [] OTHER -> {InternalError("get_recommendation")}

\* The response of get_recommendation before requests.post is reached.
RecommendLocal(k, body) ==
    IF KeyMissing(k) THEN KeyErrorResponse("get_recommendation")
    ELSE IF ~body.obj THEN InternalError("get_recommendation")
    ELSE IF body.val.kind = "absent"
         THEN Json("get_recommendation", 500,
                   [error |-> "Received an invalid response from the AI service."])
    ELSE Json("get_recommendation", 400, [error |-> "Item field cannot be empty."])

get_recommendation(body) ==
    /\ pre' = points
    /\ posted' = RecommendPosts(api_key, body)
    /\ IF RecommendPosts(api_key, body)
       THEN \E remote \in RemoteOutcomes :
               /\ req' = [handler |-> "get_recommendation", body |-> body, remote |-> remote]
               /\ resp' \in RecommendRemote(remote)
       ELSE /\ req' = [handler |-> "get_recommendation", body |-> body, remote |-> NoRemote]
            /\ resp' = RecommendLocal(api_key, body)
    /\ UNCHANGED <<points, api_key, concVars>>

\* TRUE iff scan_image reaches requests.post (line 146).
ScanPosts(k, body) == ~KeyMissing(k) /\ body.obj /\ body.val.kind # "absent"

\* line 150: the f-string reads e.response.status_code; e.response is None
\* when the exception carries no response, and the AttributeError this raises
\* inside the except clause is handled by no other clause of the try.
ScanTransportFailure(remote) ==
    IF remote.kind = "http_error"
    THEN Json("scan_image", 500,
              [error |-> "Could not reach Google API. Status: " \o remote.status])
    ELSE Escaped("scan_image", "AttributeError")

ScanRemote(remote) ==
    CASE remote.kind \in {"conn_error", "http_error"} -> {ScanTransportFailure(remote)}
      [] remote.kind = "bad_json" ->
            {ScanTransportFailure(remote), InternalError("scan_image")}
      [] OTHER -> {Json("scan_image", 200, [raw |-> remote.kind])}

ScanLocal(k, body) ==
    IF KeyMissing(k) THEN KeyErrorResponse("scan_image")
    ELSE IF ~body.obj THEN InternalError("scan_image")
    ELSE Json("scan_image", 400, [error |-> "Invalid request: \"imageData\" field missing."])

scan_image(body) ==
    /\ pre' = points
    /\ posted' = ScanPosts(api_key, body)
    /\ IF ScanPosts(api_key, body)
       THEN \E remote \in RemoteOutcomes :
               /\ req' = [handler |-> "scan_image", body |-> body, remote |-> remote]
               /\ resp' \in ScanRemote(remote)
       ELSE /\ req' = [handler |-> "scan_image", body |-> body, remote |-> NoRemote]
            /\ resp' = ScanLocal(api_key, body)
    /\ UNCHANGED <<points, api_key, concVars>>

-----------------------------------------------------------------------------
Init ==
    /\ points = InitialPoints
    /\ api_key \in ApiKeys
    /\ req = NoReq
    /\ pre = InitialPoints
    /\ resp = NoResp
    /\ posted = FALSE
    /\ call = [t \in Calls |-> NoBody]
    /\ pc = [t \in Calls |-> "idle"]
    /\ item_name = [t \in Calls |-> ""]
    /\ item_cost = [t \in Calls |-> 0]
    /\ tmp = [t \in Calls |-> 0]
    /\ out = [t \in Calls |-> NoResp]
    /\ start = InitialPoints
    /\ overlap = FALSE

Next ==
    \/ get_user
    \/ get_leaderboard
    \/ get_marketplace_items
    \/ get_news
    \/ serve_index
    \/ \E body \in RedeemBodies : redeem_item(body)
    \/ \E body \in Bodies(ItemValues) : get_recommendation(body)
    \/ \E body \in Bodies(ImageValues) : scan_image(body)

Spec == Init /\ [][Next]_vars

-----------------------------------------------------------------------------
(* Two redeem_item calls served by two threads (app.run serves each        *)
(* request in its own thread).  No lock guards user_data, so each read and *)
(* each write of user_data['points'] is a step of its own.                 *)

Other(t) == IF t = "A" THEN "B" ELSE "A"

InFlight(t) == pc[t] \notin {"idle", "done"}

\* lines 68-73: only the request and the immutable catalog are read.
Begin(t, body) ==
    /\ pc[t] = "idle"
    /\ call' = [call EXCEPT ![t] = body]
    /\ overlap' = (overlap \/ InFlight(Other(t)))
    /\ IF ReachesCheck(body)
       THEN /\ item_name' = [item_name EXCEPT ![t] = body.val.str]
            /\ item_cost' = [item_cost EXCEPT ![t] = marketplace_items_db[body.val.str]]
            /\ pc' = [pc EXCEPT ![t] = "check"]
            /\ out' = out
       ELSE /\ out' = [out EXCEPT ![t] = RedeemEarly(body)]
            /\ pc' = [pc EXCEPT ![t] = "done"]
            /\ UNCHANGED <<item_name, item_cost>>
    /\ UNCHANGED <<seqVars, tmp, start>>

\* line 75: `if user_data['points'] >= item_cost`
Check(t) ==
    /\ pc[t] = "check"
    /\ pc' = [pc EXCEPT ![t] = IF CanAfford(points, item_cost[t]) THEN "load" ELSE "reject"]
    /\ UNCHANGED <<seqVars, call, item_name, item_cost, tmp, out, start, overlap>>

\* line 76, the read of `user_data['points'] -= item_cost`
Load(t) ==
    /\ pc[t] = "load"
    /\ tmp' = [tmp EXCEPT ![t] = points]
    /\ pc' = [pc EXCEPT ![t] = "store"]
    /\ UNCHANGED <<seqVars, call, item_name, item_cost, out, start, overlap>>

\* line 76, the subtraction and the write
Store(t) ==
    /\ pc[t] = "store"
    /\ points' = Deduct(tmp[t], item_cost[t])
    /\ pc' = [pc EXCEPT ![t] = "respond"]
    /\ UNCHANGED <<api_key, req, pre, resp, posted,
                   call, item_name, item_cost, tmp, out, start, overlap>>

\* lines 77-82: new_points reads user_data['points'] again
Respond(t) ==
    /\ pc[t] = "respond"
    /\ out' = [out EXCEPT ![t] = RedeemOk(item_name[t], points)]
    /\ pc' = [pc EXCEPT ![t] = "done"]
    /\ UNCHANGED <<seqVars, call, item_name, item_cost, tmp, start, overlap>>

\* lines 84-89
Reject(t) ==
    /\ pc[t] = "reject"
    /\ out' = [out EXCEPT ![t] = RedeemRejected(item_name[t], points)]
    /\ pc' = [pc EXCEPT ![t] = "done"]
    /\ UNCHANGED <<seqVars, call, item_name, item_cost, tmp, start, overlap>>

\* Both calls have returned; the threads take the next two requests.
NextPair ==
    /\ \A t \in Calls : pc[t] = "done"
    /\ pc' = [t \in Calls |-> "idle"]
    /\ call' = [t \in Calls |-> NoBody]
    /\ item_name' = [t \in Calls |-> ""]
    /\ item_cost' = [t \in Calls |-> 0]
    /\ tmp' = [t \in Calls |-> 0]
    /\ out' = [t \in Calls |-> NoResp]
    /\ start' = points
    /\ overlap' = FALSE
    /\ UNCHANGED seqVars

NextConc ==
    \/ \E t \in Calls, body \in RedeemBodies : Begin(t, body)
    \/ \E t \in Calls : Check(t)
    \/ \E t \in Calls : Load(t)
    \/ \E t \in Calls : Store(t)
    \/ \E t \in Calls : Respond(t)
    \/ \E t \in Calls : Reject(t)
    \/ NextPair

SpecConc == Init /\ [][NextConc]_vars

\* The balance the two calls leave when a runs to completion before b starts.
Sequential(a, b) == RedeemPoints(call[b], RedeemPoints(call[a], start))


-----------------------------------------------------------------------------
(* Properties                                                              *)

LastIs(h) == req.handler = h

\* The last request was a redemption naming a catalog item.
RedeemedItem == LastIs("redeem_item") /\ req.body.obj /\ InDb(req.body.val)

LastCost == marketplace_items_db[req.body.val.str]

\* C1: a redemption naming a catalog item whose cost is <= the balance leaves
\* the balance at the balance before minus the cost, and answers 200 with
\* success = true and new_points = the new balance.
C1_RedeemAffordable ==
    (RedeemedItem /\ LastCost <= pre) =>
        /\ points = pre - LastCost
        /\ resp.kind = "json" /\ resp.status = 200
        /\ resp.body.success = TRUE
        /\ resp.body.new_points = points

\* 'Cloth Tote Bag' at 1250 leaves 750.
C1_Witness ==
    /\ RedeemedItem /\ req.body.val.str = "Cloth Tote Bag"
    /\ pre = 1250 /\ points = 750
    /\ resp.status = 200 /\ resp.body.new_points = 750

\* C2: a redemption naming a catalog item whose cost is > the balance leaves the
\* balance unchanged and answers 400 with success = false and new_points = the
\* unchanged balance.
C2_RedeemUnaffordable ==
    (RedeemedItem /\ LastCost > pre) =>
        /\ points = pre
        /\ resp.kind = "json" /\ resp.status = 400
        /\ resp.body.success = FALSE
        /\ resp.body.new_points = pre

C2_Witness ==
    /\ RedeemedItem /\ req.body.val.str = "Seed Paper Pack"
    /\ pre = 250 /\ points = 250
    /\ resp.status = 400 /\ resp.body.new_points = 250

\* The name is missing (no field, or null), empty, or a value that can be
\* looked up in the catalog and is not one of its keys.
NameMissingOrUnknown(v) ==
    \/ v.kind \in {"absent", "null"}
    \/ v.kind = "string" /\ v.str \notin DOMAIN marketplace_items_db
    \/ v.kind = "number"
    \/ v.kind = "array" /\ v.str = ""

\* C3: a redemption whose name is missing, empty or not a key of
\* marketplace_items_db leaves the balance unchanged and answers 404 with
\* success = false and the message 'Item not found.'.
C3_UnknownItem ==
    (LastIs("redeem_item") /\ req.body.obj /\ NameMissingOrUnknown(req.body.val)) =>
        /\ points = pre
        /\ resp.kind = "json" /\ resp.status = 404
        /\ resp.body.success = FALSE
        /\ resp.body.message = "Item not found."

\* 'Unicorn' asked for after a redemption has already changed the balance.
C3_Witness ==
    /\ LastIs("redeem_item") /\ req.body.obj /\ req.body.val = JStr("Unicorn")
    /\ pre < InitialPoints /\ points = pre
    /\ resp.status = 404

\* C4: with requests handled one at a time the balance is never negative.
C4_NonNegative == points >= 0

\* The balance has been spent down to 0 and a further redemption is refused.
C4_Witness ==
    /\ RedeemedItem /\ pre = 0 /\ points = 0 /\ resp.status = 400

\* C5: get_leaderboard answers 7 entries ranked 1..7 in order; the first six are
\* the fixed rows and the seventh, 'You', carries the balance of that moment.
C5_Leaderboard ==
    LastIs("get_leaderboard") =>
        /\ resp.kind = "json" /\ resp.status = 200
        /\ Len(resp.body.entries) = 7
        /\ \A i \in 1..7 : resp.body.entries[i].rank = i
        /\ [i \in 1..6 |-> resp.body.entries[i].name]
              = <<"K Keerthana", "Deepika", "Aravind", "Sai Charan", "Priya", "Ramesh">>
        /\ [i \in 1..6 |-> resp.body.entries[i].points]
              = <<5430, 5120, 4980, 3200, 2150, 1500>>
        /\ resp.body.entries[7].name = "You"
        /\ resp.body.entries[7].points = points

\* The leaderboard read after redemptions have brought the balance to 400.
C5_Witness ==
    /\ LastIs("get_leaderboard") /\ points = 400
    /\ resp.body.entries[7].points = 400

LastIsProxy == LastIs("get_recommendation") \/ LastIs("scan_image")

\* C6: with no API key in the environment, get_recommendation and scan_image
\* answer 500 with the configuration error whatever the body, and requests.post
\* is not reached.
C6_MissingKey ==
    (LastIsProxy /\ ~api_key.present) =>
        /\ resp.kind = "json" /\ resp.status = 500
        /\ resp.body.error = "API key not configured on the server."
        /\ ~posted

\* A scan request with a well-formed body, and a recommend request whose body
\* is no JSON object, both answered with the configuration error.
C6_Witness ==
    /\ ~api_key.present /\ resp.status = 500 /\ ~posted
    /\ \/ LastIs("scan_image") /\ req.body.obj /\ req.body.val = JStr("aGVsbG8=")
       \/ LastIs("get_recommendation") /\ ~req.body.obj

\* C7: with the API key configured, a get_recommendation request whose item is
\* absent from the body or is the empty string answers 400 and does not reach
\* requests.post.
C7_EmptyOrAbsentItem ==
    (/\ LastIs("get_recommendation")
     /\ api_key.present /\ api_key.val # ""
     /\ req.body.obj
     /\ req.body.val \in {JAbsent, JStr("")}) =>
        /\ resp.status = 400
        /\ ~posted

LastIsGuarded == LastIs("redeem_item") \/ LastIsProxy

\* C8: every redeem_item, get_recommendation and scan_image call ends in a JSON
\* body with a status code; in scan_image a transport failure of the remote
\* call, with or without an HTTP response, ends in the JSON 500
\* 'Could not reach Google API' answer.
C8_NoEscape ==
    /\ LastIsGuarded => resp.kind = "json"
    /\ (LastIs("scan_image") /\ posted /\ req.remote.kind \in {"conn_error", "http_error"}) =>
          /\ resp.kind = "json" /\ resp.status = 500
          /\ resp.body.error \in
                {"Could not reach Google API. Status: " \o st : st \in {"", "None", "429", "503"}}

\* Both calls of the pair have returned.
PairDone == \A t \in Calls : pc[t] = "done"

\* The balance equals the result of neither sequential order of the two calls.
NotSerial == points \notin {Sequential("A", "B"), Sequential("B", "A")}

BothSucceeded == \A t \in Calls : out[t].status = 200 /\ out[t].body.success = TRUE

\* C9: redemption is not atomic.  A pair of redeem_item calls can leave a
\* balance that neither sequential order gives; this happens only when the two
\* calls were in flight together and both passed the balance check, and the
\* balance is then the starting balance less one of the costs (a lost update)
\* or less both (an overdraft no sequential order allows).
C9_LostUpdate ==
    (PairDone /\ NotSerial) =>
        /\ overlap
        /\ BothSucceeded
        /\ points \in {start - marketplace_items_db[item_name["A"]],
                       start - marketplace_items_db[item_name["B"]],
                       start - marketplace_items_db[item_name["A"]]
                             - marketplace_items_db[item_name["B"]]}

\* From 1250, 'Cloth Tote Bag' (500) and 'Seed Paper Pack' (350) both report
\* success and the balance is 750: only one cost is deducted, where either
\* sequential order leaves 400.
C9_Witness ==
    /\ PairDone /\ BothSucceeded
    /\ start = 1250
    /\ call["A"].val = JStr("Cloth Tote Bag") /\ call["B"].val = JStr("Seed Paper Pack")
    /\ Sequential("A", "B") = 400 /\ Sequential("B", "A") = 400
    /\ points = 750

\* C10: no request raises the balance, so it never exceeds the starting 1250,
\* and every redemption of 'Compost Bin' (1500) answers 400 and leaves the
\* balance unchanged.
C10_NeverIncreases ==
    /\ points <= pre
    /\ points <= 1250
    /\ (RedeemedItem /\ req.body.val.str = "Compost Bin") =>
          /\ points = pre
          /\ resp.kind = "json" /\ resp.status = 400
          /\ resp.body.success = FALSE

\* 'Compost Bin' refused at the full starting balance.
C10_Witness ==
    /\ RedeemedItem /\ req.body.val.str = "Compost Bin"
    /\ pre = 1250 /\ points = 1250 /\ resp.status = 400

====
